---- MODULE Spec2Model ----
(***************************************************************************)
(* The PanDerm helper scripts as one state machine.                        *)
(*                                                                         *)
(* A shell launches the six scripts one after the other; they share        *)
(* nothing but the file system and the Python environment (the set of      *)
(* importable modules).  Each script is a straight-line process: pc is     *)
(* its position, loc its local variables, ret the value its main           *)
(* returned, and ProcessExit turns ret into the exit code the way the      *)
(* script's __main__ block does.  test_local_inference.py runs             *)
(* create_test_model.py as a child process: the parent's frame waits on    *)
(* stack.  Every external call (network, pip, file system, the ML          *)
(*  libraries) is a nondeterministic choice among the outcomes it can      *)
(* have.  log records, for the current shell command, every external       *)
(* call and every message a claim is about.                                *)
(***************************************************************************)
EXTENDS Integers, Sequences, FiniteSets, TLC

\* ------------------------------------------------------------------ bounds
MaxRuns == 2             \* scripts the shell launches in one behaviour
MaxInputLen == 2         \* characters typed at the download prompt
MaxCookies == 2          \* cookies of the first HTTP response
MaxInstallFailures == 2  \* pip installs that do not succeed in one run
RngStates == 6           \* states of the random generator
MaxBatch == 2            \* rows of a prediction's input
MaxPredictions == 2      \* predictions made in one behaviour

\* ------------------------------------------------------------------- paths
\* A path is the sequence of its components; ".." is resolved against the
\* directory it is used in, as the operating system does.
RECURSIVE Normalize(_, _)
Normalize(done, rest) ==
    IF rest = <<>> THEN done
    ELSE IF Head(rest) = ".."
         THEN Normalize(IF done = <<>> THEN <<>> ELSE SubSeq(done, 1, Len(done) - 1),
                        Tail(rest))
         ELSE Normalize(Append(done, Head(rest)), Tail(rest))

Resolve(cwd, path) == Normalize(<<>>, cwd \o path)

\* The directory each script is run from: the conversion scripts from
\* conversion/ (download_weights.py prints "Run: python3
\* convert_panderm_to_coreml.py"), the others from the repository root.
ConversionDir == <<"conversion">>
RootDir == <<>>

Prefixes(p) == {SubSeq(p, 1, n) : n \in 1..Len(p)}
IsUnder(q, p) == Len(q) >= Len(p) /\ SubSeq(q, 1, Len(p)) = p

\* The file system: a function from the existing paths to their content.
Exists(f, p) == p \in DOMAIN f
WriteFile(f, p, c) == [q \in DOMAIN f \cup {p} |-> IF q = p THEN c ELSE f[q]]
MkdirParents(f, p) ==
    [q \in DOMAIN f \cup Prefixes(p) |-> IF q \in DOMAIN f THEN f[q] ELSE "dir"]
Rmtree(f, p) == [q \in {r \in DOMAIN f : ~IsUnder(r, p)} |-> f[q]]

\* --------------------------------------------------------------- variables
VARIABLES
    fs,          \* the file system
    fs0,         \* the file system when the current shell command started
    importable,  \* the modules `import` can load
    script,      \* the running script, "none" at the shell prompt
    pc,          \* the running script's position
    loc,         \* the running script's local variables
    ret,         \* what main returned: TRUE, FALSE, "None", "raised", "unset"
    stack,       \* the frames of the processes waiting for a child
    runs,        \* shell commands started so far
    exitCode,    \* [script, code] of the last process that ended
    ready,       \* the choice after which "Ready for conversion" was last printed
    log          \* the external calls and messages of the current shell command

vars == <<fs, fs0, importable, script, pc, loc, ret, stack, runs, exitCode, ready, log>>

Event(by, op, arg, ok) == [by |-> by, op |-> op, arg |-> arg, ok |-> ok]
Emit(by, op, arg, ok) == log' = Append(log, Event(by, op, arg, ok))

\* ------------------------------------------------------------ environment
\* Modules the scripts import.
AllModules == {"requests", "numpy", "torch", "torchvision", "timm", "coremltools"}

\* Paths the scripts read and write, from the repository root.
WeightsDirPath == <<"..", "model", "pretrain_weight">>
BaseFilename == "panderm_bb_data6_checkpoint-499.pth"
LargeFilename == "panderm_ll_data6_checkpoint-499.pth"
BaseCheckpoint == Resolve(ConversionDir, Append(WeightsDirPath, BaseFilename))
LargeCheckpoint == Resolve(ConversionDir, Append(WeightsDirPath, LargeFilename))
CheckpointFiles == {BaseCheckpoint, LargeCheckpoint}

\* ------------------------------------------------------------------- shell
Scripts == {"download", "convert", "setup", "create", "test", "validate"}

\* Where each script starts: at its module-level imports when one of them can
\* fail, else at the first statement of main.
StartPc(s) ==
    CASE s = "download" -> "download_import"
      [] s = "convert" -> "convert_import"
      [] s = "setup" -> "setup_install"
      [] s = "create" -> "create_import"
      [] s = "test" -> "test_loop"
      [] s = "validate" -> "validate_swift"

NoResponse == [cookies |-> <<>>, body |-> "none"]

InitLoc(s) ==
    CASE s = "download" ->
           [typed |-> <<>>, choice |-> <<>>, file_id |-> "", destination |-> <<>>,
            token |-> <<>>, response |-> NoResponse, first |-> NoResponse]
      [] s = "setup" -> [idx |-> 1, failed_packages |-> <<>>]
      [] s = "create" -> [stage |-> 1]
      [] s = "test" -> [results |-> <<>>, returncode |-> 0]
      [] s = "validate" -> [results |-> <<>>]
      [] OTHER -> [none |-> TRUE]

\* The shell starts a script: python3 <script>.py.
Launch(s) ==
    /\ script = "none"
    /\ runs < MaxRuns
    /\ script' = s
    /\ pc' = StartPc(s)
    /\ loc' = InitLoc(s)
    /\ ret' = "unset"
    /\ runs' = runs + 1
    /\ fs0' = fs
    /\ log' = <<>>
    /\ exitCode' = [script |-> "none", code |-> 0]
    /\ UNCHANGED <<fs, importable, stack, ready>>

\* The exit code of a process whose main returned r ("raised": an exception
\* no handler caught, which ends the interpreter with status 1).
ExitCode(s, r) ==
    IF r = "raised" THEN 1
    ELSE CASE s \in {"download", "setup"} -> IF r = "True" THEN 0 ELSE 1
           [] s \in {"create", "test", "validate"} -> IF r = "True" THEN 0 ELSE 1
           [] s = "convert" -> 0

\* The running process ends; a waiting parent gets its return code.
ProcessExit ==
    /\ pc = "exit"
    /\ LET code == ExitCode(script, ret) IN
       /\ exitCode' = [script |-> script, code |-> code]
       /\ IF stack = <<>>
          THEN /\ script' = "none"
               /\ pc' = "prompt"
               /\ loc' = [none |-> TRUE]
               /\ stack' = stack
          ELSE LET frame == Head(stack) IN
               /\ script' = frame.script
               /\ pc' = frame.pc
               /\ loc' = [frame.loc EXCEPT !.returncode = code]
               /\ stack' = Tail(stack)
    /\ ret' = IF stack = <<>> THEN ret ELSE "unset"
    /\ UNCHANGED <<fs, fs0, importable, runs, ready, log>>

\* main returned r (or an exception escaped it): the process is about to end.
Finish(r) == ret' = r /\ pc' = "exit"

\* ------------------------------------------------------ download_weights.py
\* Text typed at the prompt: a sequence of characters.
InputChars == {" ", "1", "2", "3"}
Whitespace == {" "}

RECURSIVE LStrip(_)
LStrip(s) == IF s # <<>> /\ Head(s) \in Whitespace THEN LStrip(Tail(s)) ELSE s
RECURSIVE RStrip(_)
RStrip(s) ==
    IF s # <<>> /\ s[Len(s)] \in Whitespace THEN RStrip(SubSeq(s, 1, Len(s) - 1)) ELSE s
\* Faulty variant: the input is used as typed
Strip_Missing(s) == s
\* str.strip()
Strip(s) == RStrip(LStrip(s))

Inputs == UNION {[1..n -> InputChars] : n \in 0..MaxInputLen}

\* The models dictionary of main.
models ==
    [c \in {<<"1">>, <<"2">>} |->
        IF c = <<"1">>
        THEN [name |-> "PanDerm_Base", file_id |-> "17J4MjsZu3gdBP6xAQi_NMDVvH65a00HB",
              filename |-> BaseFilename]
        ELSE [name |-> "PanDerm_Large", file_id |-> "1SwEzaOlFV_gBKf2UzeowMC8z9UH7AQbE",
              filename |-> LargeFilename]]

\* A cookie name is a sequence of pieces; str.startswith compares prefixes.
WarningPrefix == <<"download_warning">>
StartsWith(key, prefix) ==
    Len(key) >= Len(prefix) /\ SubSeq(key, 1, Len(prefix)) = prefix

Cookies ==
    {[key |-> <<"download_warning", "_x7">>, value |-> v] : v \in {"", "t1", "t2"}}
    \cup {[key |-> <<"NID">>, value |-> "t1"],
          [key |-> <<"x", "download_warning">>, value |-> "t2"]}
CookieLists == UNION {[1..n -> Cookies] : n \in 0..MaxCookies}
FirstResponses == {[cookies |-> c, body |-> "body1"] : c \in CookieLists}
SecondResponses == {[cookies |-> <<>>, body |-> "body2"]}

\* get_confirm_token: the value of the first cookie whose name starts with
\* download_warning, else None.  A Python optional is <<>> (None) or <<v>>.
RECURSIVE get_confirm_token(_)
get_confirm_token(cookies) ==
    IF cookies = <<>> THEN <<>>
    ELSE IF StartsWith(Head(cookies).key, WarningPrefix)
         THEN <<Head(cookies).value>>
         ELSE get_confirm_token(Tail(cookies))

\* Faulty variant: `if token is not None:`
Truthy_NotNone(tok) == tok # <<>>

\* `if token:` is false for None and for the empty string.
Truthy(tok) == tok # <<>> /\ tok[1] # ""

\* import os, sys, requests, pathlib
DownloadImport ==
    /\ script = "download" /\ pc = "download_import"
    /\ IF "requests" \in importable
       THEN pc' = "download_mkdir" /\ ret' = ret
       ELSE Finish("raised")
    /\ Emit("download", "import", <<"requests">>, "requests" \in importable)
    /\ UNCHANGED <<fs, fs0, importable, script, loc, stack, runs, exitCode, ready>>

\* weights_dir.mkdir(parents=True, exist_ok=True)
DownloadMkdir ==
    /\ script = "download" /\ pc = "download_mkdir"
    /\ \E ok \in BOOLEAN :
         /\ Emit("download", "mkdir", Resolve(ConversionDir, WeightsDirPath), ok)
         /\ IF ok
            THEN /\ fs' = MkdirParents(fs, Resolve(ConversionDir, WeightsDirPath))
                 /\ pc' = "download_input" /\ ret' = ret
            ELSE fs' = fs /\ Finish("raised")
    /\ UNCHANGED <<fs0, importable, script, loc, stack, runs, exitCode, ready>>

\* choice = input(...).strip(); if choice not in models: return False
DownloadInput ==
    /\ script = "download" /\ pc = "download_input"
    /\ \E typed \in Inputs :
         LET choice == Strip(typed) IN
         IF choice \notin DOMAIN models
         THEN /\ loc' = [loc EXCEPT !.typed = typed, !.choice = choice]
              /\ Finish("False")
              /\ Emit("download", "print", <<"Invalid choice">>, FALSE)
         ELSE /\ loc' = [loc EXCEPT !.typed = typed, !.choice = choice,
                                    !.file_id = models[choice].file_id,
                                    !.destination =
                                        Append(WeightsDirPath, models[choice].filename)]
              /\ pc' = "download_get1" /\ ret' = ret
              /\ log' = log
    /\ UNCHANGED <<fs, fs0, importable, script, stack, runs, exitCode, ready>>

\* response = session.get(url, params={'id': file_id}); token = get_confirm_token(response)
\* (loc.first keeps the first response: response itself is reassigned by the second GET)
DownloadGet1 ==
    /\ script = "download" /\ pc = "download_get1"
    /\ \/ \E r \in FirstResponses :
            /\ loc' = [loc EXCEPT !.response = r, !.first = r,
                                   !.token = get_confirm_token(r.cookies)]
            /\ pc' = IF Truthy(get_confirm_token(r.cookies))
                     THEN "download_get2" ELSE "download_save"
            /\ ret' = ret
            /\ Emit("download", "GET", <<"id", loc.file_id>>, TRUE)
       \/ /\ Finish("False")
          /\ loc' = loc
          /\ Emit("download", "GET", <<"id", loc.file_id>>, FALSE)
    /\ UNCHANGED <<fs, fs0, importable, script, stack, runs, exitCode, ready>>

\* Faulty variant: a second GET that failed is sent again, once
DownloadGet2_Retry ==
    /\ script = "download" /\ pc = "download_get2"
    /\ \/ \E r \in SecondResponses :
            /\ loc' = [loc EXCEPT !.response = r]
            /\ pc' = "download_save" /\ ret' = ret
            /\ Emit("download", "GET", <<"id", loc.file_id, "confirm", loc.token[1]>>, TRUE)
       \/ /\ IF \E i \in DOMAIN log : log[i].op = "GET" /\ Len(log[i].arg) = 4
             THEN Finish("False")
             ELSE pc' = pc /\ ret' = ret
          /\ loc' = loc
          /\ Emit("download", "GET", <<"id", loc.file_id, "confirm", loc.token[1]>>, FALSE)
    /\ UNCHANGED <<fs, fs0, importable, script, stack, runs, exitCode, ready>>

\* if token: response = session.get(url, params={'id': file_id, 'confirm': token})
DownloadGet2 ==
    /\ script = "download" /\ pc = "download_get2"
    /\ \/ \E r \in SecondResponses :
            /\ loc' = [loc EXCEPT !.response = r]
            /\ pc' = "download_save" /\ ret' = ret
            /\ Emit("download", "GET", <<"id", loc.file_id, "confirm", loc.token[1]>>, TRUE)
       \/ /\ Finish("False")
          /\ loc' = loc
          /\ Emit("download", "GET", <<"id", loc.file_id, "confirm", loc.token[1]>>, FALSE)
    /\ UNCHANGED <<fs, fs0, importable, script, stack, runs, exitCode, ready>>

\* save_response_content(response, destination), then the size report and
\* return True; any exception: return False.
DownloadSave ==
    /\ script = "download" /\ pc = "download_save"
    /\ LET dest == Resolve(ConversionDir, loc.destination) IN
       \/ /\ fs' = WriteFile(fs, dest, loc.response.body)
          /\ log' = log \o <<Event("download", "write", dest, TRUE),
                             Event("download", "print", <<"Ready for conversion">>, TRUE)>>
          /\ ready' = loc.choice
          /\ Finish("True")
       \/ /\ fs' = fs                      \* open() raised
          /\ Emit("download", "write", dest, FALSE)
          /\ ready' = ready
          /\ Finish("False")
       \/ /\ fs' = WriteFile(fs, dest, "partial")   \* the stream broke
          /\ Emit("download", "write", dest, FALSE)
          /\ ready' = ready
          /\ Finish("False")
    /\ UNCHANGED <<fs0, importable, script, loc, stack, runs, exitCode>>

\* ---------------------------------------------------- setup_environment.py
\* The packages list of main, with the module each requirement provides.
packages ==
    <<"torch>=1.12.0", "torchvision>=0.13.0", "timm>=0.6.0", "coremltools>=6.0",
      "numpy>=1.21.0", "Pillow>=8.0.0", "pandas>=1.3.0", "scikit-learn>=1.0.0",
      "opencv-python>=4.5.0", "albumentations>=1.0.0", "tqdm>=4.60.0",
      "wandb>=0.12.0", "tensorboard>=2.8.0">>
ModuleOf(package) ==
    CASE package = "torch>=1.12.0" -> {"torch"}
      [] package = "torchvision>=0.13.0" -> {"torchvision"}
      [] package = "timm>=0.6.0" -> {"timm"}
      [] package = "coremltools>=6.0" -> {"coremltools"}
      [] package = "numpy>=1.21.0" -> {"numpy"}
      [] OTHER -> {}

\* What one pip call can do: install the package, exit 0 and leave it
\* unusable, exit non-zero (CalledProcessError), or fail to run at all (any
\* other exception, which install_package does not catch).
PipOutcomes == {"ok", "broken", "fail", "raise"}

\* Faulty variant: a failed pip call is reported as installed
install_package_AlwaysTrue(outcome) == outcome \in PipOutcomes

\* install_package's return value.
install_package(outcome) == outcome \in {"ok", "broken"}

\* for package in packages: if not install_package(package):
\*     failed_packages.append(package)
SetupInstall ==
    /\ script = "setup" /\ pc = "setup_install"
    /\ \E outcome \in PipOutcomes :
         LET package == packages[loc.idx] IN
         /\ outcome \in {"fail", "raise"} => Len(loc.failed_packages) < MaxInstallFailures
         /\ outcome = "broken" => ModuleOf(package) \ importable # {}
         /\ Emit("setup", "install", <<package>>, outcome \in {"ok", "broken"})
         /\ importable' = IF outcome = "ok" THEN importable \cup ModuleOf(package)
                          ELSE importable
         /\ IF outcome = "raise"
            THEN loc' = loc /\ Finish("raised")
            ELSE /\ loc' = [loc EXCEPT
                              !.idx = @ + 1,
                              !.failed_packages =
                                  IF install_package(outcome) THEN @ ELSE Append(@, package)]
                 /\ pc' = IF loc.idx = Len(packages) THEN "setup_check" ELSE "setup_install"
                 /\ ret' = ret
    /\ UNCHANGED <<fs, fs0, script, stack, runs, exitCode, ready>>

\* Faulty variant: the verification runs whatever failed
SetupCheck_IgnoresFailures ==
    /\ script = "setup" /\ pc = "setup_check"
    /\ pc' = "setup_verify" /\ ret' = ret
    /\ Emit("setup", "print", <<"All packages installed successfully">>, TRUE)
    /\ UNCHANGED <<fs, fs0, importable, script, loc, stack, runs, exitCode, ready>>

\* if failed_packages: ... return False
SetupCheck ==
    /\ script = "setup" /\ pc = "setup_check"
    /\ IF loc.failed_packages # <<>>
       THEN /\ Finish("False")
            /\ Emit("setup", "print", <<"Failed to install packages">>, FALSE)
       ELSE /\ pc' = "setup_verify" /\ ret' = ret
            /\ Emit("setup", "print", <<"All packages installed successfully">>, TRUE)
    /\ UNCHANGED <<fs, fs0, importable, script, loc, stack, runs, exitCode, ready>>

\* The imports of the verification block, in order.
VerifiedModules == <<"torch", "torchvision", "timm", "coremltools">>

\* The first module of order that cannot be imported: <<>> or <<m>>.
RECURSIVE FirstMissing(_, _)
FirstMissing(order, available) ==
    IF order = <<>> THEN <<>>
    ELSE IF Head(order) \notin available THEN <<Head(order)>>
         ELSE FirstMissing(Tail(order), available)

\* try: import torch, torchvision, timm, coremltools; return True
\* except ImportError: return False
SetupVerify ==
    /\ script = "setup" /\ pc = "setup_verify"
    /\ LET missing == FirstMissing(VerifiedModules, importable) IN
       IF missing = <<>>
       THEN /\ Finish("True")
            /\ Emit("setup", "print", <<"Environment setup completed successfully">>, TRUE)
       ELSE /\ Finish("False")
            /\ log' = log \o <<Event("setup", "import", missing, FALSE),
                               Event("setup", "print", <<"Import error">>, FALSE)>>
    /\ UNCHANGED <<fs, fs0, importable, script, loc, stack, runs, exitCode, ready>>

\* ------------------------------------------------ convert_panderm_to_coreml.py
\* import torch, torch.nn, coremltools, numpy at the top of the module
ConvertTopImports == <<"torch", "coremltools", "numpy">>
\* the imports setup_environment tries, in order
RequiredModules == <<"timm", "torch", "torchvision", "coremltools", "numpy">>

checkpoint_path == <<"..", "model", "pretrain_weight", BaseFilename>>
output_path == <<"..", "PanDerm", "PanDerm.mlpackage">>
ConvertOutput == Resolve(ConversionDir, output_path)

ConvertImport ==
    /\ script = "convert" /\ pc = "convert_import"
    /\ LET missing == FirstMissing(ConvertTopImports, importable) IN
       IF missing = <<>>
       THEN pc' = "convert_environment" /\ ret' = ret /\ log' = log
       ELSE Finish("raised") /\ Emit("convert", "import", missing, FALSE)
    /\ UNCHANGED <<fs, fs0, importable, script, loc, stack, runs, exitCode, ready>>

\* setup_environment() returns True iff every required module imports.
setup_environment(available) == FirstMissing(RequiredModules, available) = <<>>

\* if not setup_environment(): print("Environment setup failed"); return
ConvertEnvironment ==
    /\ script = "convert" /\ pc = "convert_environment"
    /\ IF setup_environment(importable)
       THEN pc' = "convert_checkpoint" /\ ret' = ret /\ log' = log
       ELSE /\ Finish("None")
            /\ log' = log \o
                 <<Event("convert", "print",
                         FirstMissing(RequiredModules, importable) \o <<"not found">>, FALSE),
                   Event("convert", "print", <<"Environment setup failed">>, FALSE)>>
    /\ UNCHANGED <<fs, fs0, importable, script, loc, stack, runs, exitCode, ready>>

\* if not os.path.exists(checkpoint_path): print("Checkpoint not found"); return
ConvertCheckpoint ==
    /\ script = "convert" /\ pc = "convert_checkpoint"
    /\ IF Exists(fs, Resolve(ConversionDir, checkpoint_path))
       THEN /\ pc' = "convert_load" /\ ret' = ret
            /\ Emit("convert", "print", <<"Found checkpoint">>, TRUE)
       ELSE /\ Finish("None")
            /\ Emit("convert", "print", <<"Checkpoint not found">>, FALSE)
    /\ UNCHANGED <<fs, fs0, importable, script, loc, stack, runs, exitCode, ready>>

\* Faulty variant: main goes on to the conversion although no model was loaded
ConvertLoad_IgnoresNone ==
    /\ script = "convert" /\ pc = "convert_load"
    /\ \E loaded \in BOOLEAN :
         Emit("convert", "load", Resolve(ConversionDir, checkpoint_path), loaded)
    /\ pc' = "convert_convert" /\ ret' = ret
    /\ UNCHANGED <<fs, fs0, importable, script, loc, stack, runs, exitCode, ready>>

\* model = load_panderm_model(checkpoint_path); if model is None: return
ConvertLoad ==
    /\ script = "convert" /\ pc = "convert_load"
    /\ \E loaded \in BOOLEAN :
         /\ Emit("convert", "load", Resolve(ConversionDir, checkpoint_path), loaded)
         /\ IF loaded THEN pc' = "convert_convert" /\ ret' = ret
            ELSE Finish("None")
    /\ UNCHANGED <<fs, fs0, importable, script, loc, stack, runs, exitCode, ready>>

\* convert_to_coreml(model, output_path): trace, ct.convert, mlmodel.save;
\* any exception: return False.  Nothing is removed before the save.
convert_to_coreml(outcome) ==
    CASE outcome = "convert_error" ->
           /\ fs' = fs
           /\ log' = log \o <<Event("convert", "ct.convert", <<>>, FALSE),
                              Event("convert", "print", <<"Conversion failed">>, FALSE)>>
      [] outcome = "save_error" ->
           /\ fs' = fs
           /\ log' = log \o <<Event("convert", "ct.convert", <<>>, TRUE),
                              Event("convert", "save", ConvertOutput, FALSE),
                              Event("convert", "print", <<"Conversion failed">>, FALSE)>>
      [] outcome = "saved" ->
           /\ fs' = WriteFile(fs, ConvertOutput, "converted")
           /\ log' = log \o <<Event("convert", "ct.convert", <<>>, TRUE),
                              Event("convert", "save", ConvertOutput, TRUE),
                              Event("convert", "print",
                                    <<"Conversion completed successfully">>, TRUE)>>

ConvertConvert ==
    /\ script = "convert" /\ pc = "convert_convert"
    /\ \E outcome \in {"convert_error", "save_error", "saved"} : convert_to_coreml(outcome)
    /\ Finish("None")
    /\ UNCHANGED <<fs0, importable, script, loc, stack, runs, exitCode, ready>>

\* ------------------------------------------------------ create_test_model.py
output_dir == <<"PanDerm">>
\* the model_name arguments of main's two create_model_package calls
ModelNames == <<"PanDerm", "PanDerm 2">>
\* Faulty variant: the package gets the extension of the older model format
PackagePath_Mlmodel(dir, model_name) == Append(dir, model_name \o ".mlmodel")
\* package_path = output_dir / f"{model_name}.mlpackage"
PackagePath(dir, model_name) == Append(dir, model_name \o ".mlpackage")
InfoFile == Append(output_dir, "models_info.txt")

\* import numpy; try: import coremltools ... except ImportError: (CreatePip)
CreateImport ==
    /\ script = "create" /\ pc = "create_import"
    /\ IF "numpy" \notin importable
       THEN Finish("raised") /\ Emit("create", "import", <<"numpy">>, FALSE)
       ELSE /\ ret' = ret
            /\ pc' = IF "coremltools" \in importable THEN "create_mkdir" ELSE "create_pip"
            /\ Emit("create", "import", <<"coremltools">>, "coremltools" \in importable)
    /\ UNCHANGED <<fs, fs0, importable, script, loc, stack, runs, exitCode, ready>>

\* except ImportError: os.system("pip install coremltools"); import coremltools
\* os.system raises nothing; the second import is outside any handler.
CreatePip ==
    /\ script = "create" /\ pc = "create_pip"
    /\ \E installed \in BOOLEAN :
         /\ importable' = IF installed THEN importable \cup {"coremltools"} ELSE importable
         /\ log' = log \o <<Event("create", "install", <<"coremltools">>, installed),
                            Event("create", "import", <<"coremltools">>, installed)>>
         /\ IF installed THEN pc' = "create_mkdir" /\ ret' = ret
            ELSE Finish("raised")
    /\ UNCHANGED <<fs, fs0, script, loc, stack, runs, exitCode, ready>>

\* output_dir.mkdir(exist_ok=True), before main's try block
CreateMkdir ==
    /\ script = "create" /\ pc = "create_mkdir"
    /\ \E ok \in BOOLEAN :
         /\ Emit("create", "mkdir", Resolve(RootDir, output_dir), ok)
         /\ IF ok
            THEN /\ fs' = MkdirParents(fs, Resolve(RootDir, output_dir))
                 /\ pc' = "create_build" /\ ret' = ret
            ELSE fs' = fs /\ Finish("raised")
    /\ UNCHANGED <<fs0, importable, script, loc, stack, runs, exitCode, ready>>

\* create_panderm_classification_model() (stage 1) and
\* create_enhanced_panderm_model() (stage 2): ct.convert may raise, which
\* main's handler turns into return False.
CreateBuild ==
    /\ script = "create" /\ pc = "create_build"
    /\ \E built \in BOOLEAN :
         /\ Emit("create", "build", <<ModelNames[loc.stage]>>, built)
         /\ IF built THEN pc' = "create_package" /\ ret' = ret
            ELSE Finish("False")
    /\ UNCHANGED <<fs, fs0, importable, script, loc, stack, runs, exitCode, ready>>

\* Faulty variant: the package is saved without removing what is there
create_model_package_NoRemoval(model_name, outcome) ==
    LET package_path == Resolve(RootDir, PackagePath(output_dir, model_name)) IN
    /\ outcome # "rmtree_error"
    /\ fs' = IF outcome = "saved" THEN WriteFile(fs, package_path, model_name) ELSE fs
    /\ Emit("create", "save", package_path, outcome = "saved")

\* create_model_package(model, model_name, output_dir):
\*   if package_path.exists(): shutil.rmtree(package_path)
\*   model.save(package_path)
\* outcome: what the external calls do (rmtree or save raising, or all well).
create_model_package(model_name, outcome) ==
    LET package_path == Resolve(RootDir, PackagePath(output_dir, model_name))
        removal == IF Exists(fs, package_path)
                   THEN <<Event("create", "rmtree", package_path, outcome # "rmtree_error")>>
                   ELSE <<>>
    IN  CASE outcome = "rmtree_error" ->
               /\ Exists(fs, package_path)
               /\ fs' = fs
               /\ log' = log \o removal
          [] outcome = "save_error" ->
               /\ fs' = Rmtree(fs, package_path)
               /\ log' = log \o removal \o <<Event("create", "save", package_path, FALSE)>>
          [] outcome = "saved" ->
               /\ fs' = WriteFile(Rmtree(fs, package_path), package_path, model_name)
               /\ log' = log \o removal \o <<Event("create", "save", package_path, TRUE)>>

CreatePackage ==
    /\ script = "create" /\ pc = "create_package"
    /\ \E outcome \in {"rmtree_error", "save_error", "saved"} :
         /\ create_model_package(ModelNames[loc.stage], outcome)
         /\ IF outcome = "saved" THEN pc' = "create_validate" /\ ret' = ret
            ELSE Finish("False")
    /\ UNCHANGED <<fs0, importable, script, loc, stack, runs, exitCode, ready>>

\* Faulty variant: a failed validation ends main with False
CreateValidate_Aborts ==
    /\ script = "create" /\ pc = "create_validate"
    /\ \E valid \in BOOLEAN :
         /\ Emit("create", "validate_model",
                 Resolve(RootDir, PackagePath(output_dir, ModelNames[loc.stage])), valid)
         /\ IF ~valid THEN loc' = loc /\ Finish("False")
            ELSE /\ ret' = ret
                 /\ IF loc.stage < Len(ModelNames)
                    THEN loc' = [loc EXCEPT !.stage = @ + 1] /\ pc' = "create_build"
                    ELSE loc' = loc /\ pc' = "create_info"
    /\ UNCHANGED <<fs, fs0, importable, script, stack, runs, exitCode, ready>>

\* if validate_model(path): print(passed) else: print(failed); main goes on
\* either way.  validate_model returns False on any exception.
CreateValidate ==
    /\ script = "create" /\ pc = "create_validate"
    /\ \E valid \in BOOLEAN :
         Emit("create", "validate_model",
              Resolve(RootDir, PackagePath(output_dir, ModelNames[loc.stage])), valid)
    /\ IF loc.stage < Len(ModelNames)
       THEN loc' = [loc EXCEPT !.stage = @ + 1] /\ pc' = "create_build"
       ELSE loc' = loc /\ pc' = "create_info"
    /\ UNCHANGED <<fs, fs0, importable, script, ret, stack, runs, exitCode, ready>>

\* with open(info_file, 'w') as f: ...; return True (except: return False)
CreateInfo ==
    /\ script = "create" /\ pc = "create_info"
    /\ \E written \in BOOLEAN :
         /\ Emit("create", "write", Resolve(RootDir, InfoFile), written)
         /\ fs' = IF written THEN WriteFile(fs, Resolve(RootDir, InfoFile), "info") ELSE fs
         /\ Finish(IF written THEN "True" ELSE "False")
    /\ UNCHANGED <<fs0, importable, script, loc, stack, runs, exitCode, ready>>

\* ---------------------------------------------------- test_local_inference.py
\* the tests list of main
tests ==
    <<"Core ML Model Creation", "Model Files Exist", "Key Implementation Files",
      "Swift Compilation", "Implementation Structure">>

model_files == <<<<"PanDerm", "PanDerm.mlpackage">>>>
key_files ==
    <<<<"PanDerm", "Services", "LocalInferenceService.swift">>,
      <<"PanDerm", "ViewModels", "SkinConditionViewModel.swift">>,
      <<"PanDerm", "Views", "ImageAnalysisView.swift">>,
      <<"PanDerm", "Views", "InferenceSettingsView.swift">>,
      <<"PanDerm", "Models", "AnalysisModels.swift">>>>
swift_files_to_compile ==
    <<<<"PanDerm", "Services", "LocalInferenceService.swift">>,
      <<"PanDerm", "Views", "ImageAnalysisView.swift">>,
      <<"PanDerm", "ViewModels", "SkinConditionViewModel.swift">>>>

\* all_exist: every path of the list exists (paths are relative to the cwd)
AllExist(f, list) == \A i \in 1..Len(list) : Exists(f, Resolve(RootDir, list[i]))
AnyExist(f, list) == \E i \in 1..Len(list) : Exists(f, Resolve(RootDir, list[i]))

NextTest == tests[Len(loc.results) + 1]
\* results.append((test_name, result))
Record(result) == loc' = [loc EXCEPT !.results = Append(@, result)]
AfterTest == IF Len(loc.results) + 1 = Len(tests) THEN "test_summary" ELSE "test_loop"

\* test_coreml_model_creation: subprocess.run([python, "create_test_model.py"]);
\* the child starts, or subprocess.run raises and the test returns False.
TestCreateStart ==
    /\ script = "test" /\ pc = "test_loop" /\ NextTest = "Core ML Model Creation"
    /\ \/ /\ stack' = <<[script |-> "test", pc |-> "test_child", loc |-> loc]>> \o stack
          /\ script' = "create"
          /\ pc' = StartPc("create")
          /\ loc' = InitLoc("create")
          /\ Emit("test", "subprocess", <<"create_test_model.py">>, TRUE)
       \/ /\ Record(FALSE)
          /\ pc' = AfterTest
          /\ Emit("test", "test", <<NextTest>>, FALSE)
          /\ UNCHANGED <<script, stack>>
    /\ UNCHANGED <<fs, fs0, importable, ret, runs, exitCode, ready>>

\* if result.returncode == 0: return True else: return False
TestCreateDone ==
    /\ script = "test" /\ pc = "test_child"
    /\ Record(loc.returncode = 0)
    /\ pc' = AfterTest
    /\ Emit("test", "test", <<NextTest>>, loc.returncode = 0)
    /\ UNCHANGED <<fs, fs0, importable, script, ret, stack, runs, exitCode, ready>>

\* what a call of a test function does: it returns a value or raises
TestOutcomes == {"True", "False", "raised"}
Returned(value) == IF value THEN "True" ELSE "False"

\* Faulty variant: an exception of a test function is not caught
RunTest_StopsOnRaise(name, outcome) ==
    /\ script = "test" /\ pc = "test_loop" /\ NextTest = name
    /\ Emit("test", "test", <<name>>, outcome = "True")
    /\ IF outcome = "raised" THEN loc' = loc /\ Finish("raised")
       ELSE Record(outcome = "True") /\ pc' = AfterTest /\ ret' = ret
    /\ UNCHANGED <<fs, fs0, importable, script, stack, runs, exitCode, ready>>

\* try: result = test_func(); results.append((test_name, result))
\* except Exception: print("Test failed with exception"); results.append((test_name, False))
RunTest(name, outcome) ==
    /\ script = "test" /\ pc = "test_loop" /\ NextTest = name
    /\ Record(outcome = "True")
    /\ log' = log \o <<Event("test", "test", <<name>>, outcome = "True")>>
                  \o (IF outcome = "raised"
                      THEN <<Event("test", "print", <<"Test failed with exception">>, FALSE)>>
                      ELSE <<>>)
    /\ pc' = AfterTest
    /\ UNCHANGED <<fs, fs0, importable, script, ret, stack, runs, exitCode, ready>>

\* The four test functions below catch what their file operations raise and
\* return a boolean.
TestModelFiles == RunTest("Model Files Exist", Returned(AllExist(fs, model_files)))
TestKeyFiles == RunTest("Key Implementation Files", Returned(AllExist(fs, key_files)))
\* test_swift_compilation: every file exists and can be read
TestSwift ==
    \E unreadable \in BOOLEAN :
       /\ unreadable => AnyExist(fs, swift_files_to_compile)
       /\ RunTest("Swift Compilation",
                  Returned(AllExist(fs, swift_files_to_compile) /\ ~unreadable))
TestStructure == RunTest("Implementation Structure", "True")

\* passed = number of true results; return passed == total
Passed(results) == Cardinality({i \in 1..Len(results) : results[i]})
TestSummary ==
    /\ script = "test" /\ pc = "test_summary"
    /\ Finish(IF Passed(loc.results) = Len(loc.results) THEN "True" ELSE "False")
    /\ UNCHANGED <<fs, fs0, importable, script, loc, stack, runs, exitCode, ready, log>>

\* -------------------------------------------------- validate_implementation.py
swift_files ==
    <<<<"PanDerm", "PanDermApp.swift">>,
      <<"PanDerm", "ContentView.swift">>,
      <<"PanDerm", "Services", "LocalInferenceService.swift">>,
      <<"PanDerm", "Views", "ImageAnalysisView.swift">>,
      <<"PanDerm", "Views", "PatientListView.swift">>,
      <<"PanDerm", "Views", "PatientDetailView.swift">>,
      <<"PanDerm", "Views", "AnalysisHistoryView.swift">>,
      <<"PanDerm", "Views", "InferenceSettingsView.swift">>,
      <<"PanDerm", "ViewModels", "PatientViewModel.swift">>,
      <<"PanDerm", "ViewModels", "SkinConditionViewModel.swift">>,
      <<"PanDerm", "Models", "Patient.swift">>,
      <<"PanDerm", "Models", "SkinCondition.swift">>,
      <<"PanDerm", "Models", "AnalysisModels.swift">>>>
core_ml_model_files ==
    <<<<"PanDerm", "PanDerm.mlpackage">>, <<"PanDerm", "PanDerm 2.mlpackage">>>>
directories ==
    <<<<"PanDerm">>, <<"PanDerm", "Views">>, <<"PanDerm", "ViewModels">>,
      <<"PanDerm", "Models">>, <<"PanDerm", "Services">>,
      <<"PanDerm", "Assets.xcassets">>>>
docs ==
    <<<<"README.md">>, <<"PanDerm", "README.md">>, <<"DATASET_SPECIFICATION.md">>,
      <<"LOCAL_INFERENCE_IMPLEMENTATION_PLAN.md">>,
      <<"IMMEDIATE_IMPLEMENTATION_GUIDE.md">>>>

\* Faulty variant: every path is reported as found
check_file_exists_Always(f, file_path) == TRUE
\* check_file_exists(file_path): os.path.exists(file_path)
check_file_exists(f, file_path) == Exists(f, Resolve(RootDir, file_path))

\* passed = 0; for file_path in list: if check_file_exists(file_path): passed += 1
RECURSIVE CountPassed(_, _)
CountPassed(f, list) ==
    IF list = <<>> THEN 0
    ELSE (IF check_file_exists(f, Head(list)) THEN 1 ELSE 0) + CountPassed(f, Tail(list))

\* each check returns (passed, total) with total = len(list)
check_swift_files(f) == <<CountPassed(f, swift_files), Len(swift_files)>>
check_core_ml_models(f) == <<CountPassed(f, core_ml_model_files), Len(core_ml_model_files)>>
check_project_structure(f) == <<CountPassed(f, directories), Len(directories)>>
check_documentation(f) == <<CountPassed(f, docs), Len(docs)>>

\* One check of main: results.append((category, passed, total)); nothing is
\* written to the file system.
ValidateCheck(at, result, next) ==
    /\ script = "validate" /\ pc = at
    /\ loc' = [loc EXCEPT !.results = Append(@, result)]
    /\ pc' = next
    /\ Emit("validate", "check", <<at>>, result[1] = result[2])
    /\ UNCHANGED <<fs, fs0, importable, script, ret, stack, runs, exitCode, ready>>

ValidateSwift == ValidateCheck("validate_swift", check_swift_files(fs), "validate_models")
ValidateModels == ValidateCheck("validate_models", check_core_ml_models(fs), "validate_structure")
ValidateStructure ==
    ValidateCheck("validate_structure", check_project_structure(fs), "validate_docs")
ValidateDocs == ValidateCheck("validate_docs", check_documentation(fs), "validate_quality")

\* analyze_code_quality: one indicator for the MVVM files, and one for each
\* of three Swift files that exists, passed or not by what the file holds.
MvvmFiles ==
    <<<<"PanDerm", "ViewModels", "PatientViewModel.swift">>,
      <<"PanDerm", "Views", "PatientListView.swift">>,
      <<"PanDerm", "Models", "Patient.swift">>>>
QualityFiles ==
    <<<<"PanDerm", "Services", "LocalInferenceService.swift">>,
      <<"PanDerm", "ViewModels", "PatientViewModel.swift">>,
      <<"PanDerm", "Views", "ImageAnalysisView.swift">>>>
\* good[i]: the i-th file holds the words the check searches for
analyze_code_quality(f, good) ==
    LET present == {i \in 1..Len(QualityFiles) : check_file_exists(f, QualityFiles[i])}
        mvvm == IF AllExist(f, MvvmFiles) THEN 1 ELSE 0
    IN  <<mvvm + Cardinality({i \in present : good[i]}), 1 + Cardinality(present)>>

ValidateQuality ==
    \E good \in [1..Len(QualityFiles) -> BOOLEAN] :
       /\ \A i \in 1..Len(QualityFiles) :
             ~check_file_exists(fs, QualityFiles[i]) => ~good[i]
       /\ ValidateCheck("validate_quality", analyze_code_quality(fs, good),
                        "validate_summary")

\* Python floats are IEEE doubles: 53 significant bits, every operation
\* rounded to the nearest double, ties to the even mantissa.  A mantissa is
\* written as five digits, the first its leading bit and four of 13 bits.
MantissaDigitBase == 8192

\* e with passed * 2^e / total in [1, 2), for 0 < passed <= total
RECURSIVE BinaryExponent(_, _)
BinaryExponent(passed, total) ==
    IF passed >= total THEN 0 ELSE 1 + BinaryExponent(2 * passed, total)

\* the next n digits of r / total, and what is left
RECURSIVE QuotientDigits(_, _, _)
QuotientDigits(r, total, n) ==
    IF n = 0 THEN [digits |-> <<>>, rem |-> r]
    ELSE LET rest == QuotientDigits((r * MantissaDigitBase) % total, total, n - 1) IN
         [digits |-> <<(r * MantissaDigitBase) \div total>> \o rest.digits,
          rem |-> rest.rem]

RECURSIVE AddOne(_)
AddOne(digits) ==
    LET n == Len(digits) IN
    IF n = 1 THEN <<digits[1] + 1>>
    ELSE IF digits[n] + 1 < MantissaDigitBase THEN [digits EXCEPT ![n] = @ + 1]
         ELSE AddOne(SubSeq(digits, 1, n - 1)) \o <<0>>

\* passed / total for 0 < passed <= total: the double mantissa * 2^-52 * 2^-exponent
FloatDivide(passed, total) ==
    LET e == BinaryExponent(passed, total)
        q == QuotientDigits(passed * 2^e - total, total, 4)
        truncated == <<1>> \o q.digits
        up == 2 * q.rem > total \/ (2 * q.rem = total /\ q.digits[4] % 2 = 1)
    IN [mantissa |-> IF up THEN AddOne(truncated) ELSE truncated, exponent |-> e]

\* digits * k, exactly; the first digit takes the carry
RECURSIVE TimesSmall(_, _, _)
TimesSmall(digits, k, carry) ==
    LET n == Len(digits)
        v == digits[n] * k + carry
    IN IF n = 1 THEN <<v>>
       ELSE TimesSmall(SubSeq(digits, 1, n - 1), k, v \div MantissaDigitBase)
                \o <<v % MantissaDigitBase>>

RECURSIVE DigitsAtLeast(_, _)
DigitsAtLeast(a, b) ==
    IF a = <<>> THEN TRUE
    ELSE IF Head(a) # Head(b) THEN Head(a) > Head(b)
         ELSE DigitsAtLeast(Tail(a), Tail(b))

RECURSIVE FloorLog2(_)
FloorLog2(n) == IF n < 2 THEN 0 ELSE 1 + FloorLog2(n \div 2)

\* The least exact product, in units of 2^-52 * 2^-exponent, that rounds to a
\* double >= threshold: threshold less half the spacing of the doubles below
\* it (the tie goes to threshold, whose mantissa is even).
LeastRoundingTo(threshold, exponent) ==
    <<threshold * 2^exponent - 1, MantissaDigitBase - 1, MantissaDigitBase - 1,
      MantissaDigitBase - 1, MantissaDigitBase - 2^(FloorLog2(threshold) - 1 + exponent)>>

\* percentage = (passed / total * 100) if total > 0 else 0; percentage >= threshold
PercentAtLeast(passed, total, threshold) ==
    IF total > 0 /\ passed > 0
    THEN LET q == FloatDivide(passed, total) IN
         DigitsAtLeast(TimesSmall(q.mantissa, 100, 0),
                       LeastRoundingTo(threshold, q.exponent))
    ELSE 0 >= threshold

RECURSIVE SumField(_, _)
SumField(results, k) ==
    IF results = <<>> THEN 0 ELSE Head(results)[k] + SumField(Tail(results), k)

\* "PASS" if percentage >= 80 else "PARTIAL" if percentage >= 50 else "FAIL"
Status(passed, total) ==
    IF PercentAtLeast(passed, total, 80) THEN "PASS"
    ELSE IF PercentAtLeast(passed, total, 50) THEN "PARTIAL" ELSE "FAIL"

\* the category names main gives its five results, in order
categories ==
    <<"Swift Implementation", "Core ML Models", "Project Structure", "Documentation",
      "Code Quality">>

\* Faulty variant: the verdict is refused when a category failed
Verdict_NeedsEveryCategory(results) ==
    /\ PercentAtLeast(SumField(results, 1), SumField(results, 2), 80)
    /\ \A i \in 1..Len(results) : Status(results[i][1], results[i][2]) # "FAIL"

\* overall_percentage >= 80, over the pooled sums
Verdict(results) == PercentAtLeast(SumField(results, 1), SumField(results, 2), 80)

\* main's summary: one status line a category, then return True iff
\* overall_percentage >= 80
ValidateSummary ==
    /\ script = "validate" /\ pc = "validate_summary"
    /\ LET ready_for_testing == Verdict(loc.results)
           lines == [i \in 1..Len(loc.results) |->
                       Event("validate", "status",
                             <<categories[i], Status(loc.results[i][1], loc.results[i][2])>>,
                             TRUE)]
       IN /\ Finish(IF ready_for_testing THEN "True" ELSE "False")
          /\ log' = log \o lines \o
                 <<Event("validate", "print",
                         <<IF ready_for_testing THEN "Implementation is ready for testing"
                           ELSE "Implementation is not ready">>, ready_for_testing)>>
    /\ UNCHANGED <<fs, fs0, importable, script, loc, stack, runs, exitCode, ready>>

\* ------------------------------------------------------------- the system
\* The states the repository can be in when the first script starts: any of
\* the checkpoints and packages may be there already, and the app's sources
\* and documents are complete, partly there, or missing.
AppPaths ==
    {swift_files[i] : i \in 1..Len(swift_files)}
    \cup {directories[i] : i \in 1..Len(directories)}
    \cup {docs[i] : i \in 1..Len(docs)}
OptionalPaths == {BaseCheckpoint, <<"PanDerm", "PanDerm.mlpackage">>}
ProbePaths ==
    {<<"PanDerm", "Services", "LocalInferenceService.swift">>,
     <<"PanDerm", "Models", "Patient.swift">>, <<"README.md">>}

\* a directory holds "dir", a file "orig"; every parent of a path exists
IsFile(p) == p \in CheckpointFiles \/ p \in {swift_files[i] : i \in 1..Len(swift_files)}
                \/ p \in {docs[i] : i \in 1..Len(docs)}
FileSystemOf(paths) ==
    LET all == UNION {Prefixes(p) : p \in paths} IN
    [p \in all |-> IF p \in paths /\ IsFile(p) THEN "orig"
                   ELSE IF p \in paths /\ p \in OptionalPaths THEN "old" ELSE "dir"]
InitialFileSystems ==
    {FileSystemOf(base \cup opt) :
        base \in {AppPaths, AppPaths \ ProbePaths, {}}, opt \in SUBSET OptionalPaths}
InitialEnvironments ==
    {AllModules} \cup {AllModules \ {m} : m \in AllModules} \cup {{}}

Init ==
    /\ \/ fs \in InitialFileSystems /\ importable = AllModules
       \/ fs = FileSystemOf({}) /\ importable \in InitialEnvironments
    /\ fs0 = fs
    /\ script = "none"
    /\ pc = "prompt"
    /\ loc = [none |-> TRUE]
    /\ ret = "unset"
    /\ stack = <<>>
    /\ runs = 0
    /\ exitCode = [script |-> "none", code |-> 0]
    /\ ready = <<>>
    /\ log = <<>>

Next ==
    \/ \E s \in Scripts : Launch(s)
    \/ ProcessExit
    \/ DownloadImport \/ DownloadMkdir \/ DownloadInput
    \/ DownloadGet1 \/ DownloadGet2 \/ DownloadSave
    \/ SetupInstall \/ SetupCheck \/ SetupVerify
    \/ ConvertImport \/ ConvertEnvironment \/ ConvertCheckpoint
    \/ ConvertLoad \/ ConvertConvert
    \/ CreateImport \/ CreatePip \/ CreateMkdir \/ CreateBuild
    \/ CreatePackage \/ CreateValidate \/ CreateInfo
    \/ TestCreateStart \/ TestCreateDone \/ TestModelFiles \/ TestKeyFiles
    \/ TestSwift \/ TestStructure \/ TestSummary
    \/ ValidateSwift \/ ValidateModels \/ ValidateStructure \/ ValidateDocs
    \/ ValidateQuality \/ ValidateSummary

Spec == Init /\ [][Next]_vars

\* ------------------------------------- the stand-in models' predict methods
\* NumPy's global generator: create_test_model.py never seeds it, so a process
\* starts with whatever state the operating system's entropy gives it, and
\* every draw moves it on.  A drawn number is a small integer standing for
\* the float; weights are in tenths.
RngStep(state) == (state + 1) % RngStates
RngSample(state) == ((3 * state) % 5) - 2

\* n draws from state: [values |-> the n numbers, state |-> the state after]
RECURSIVE Draws(_, _)
Draws(state, n) ==
    IF n = 0 THEN [values |-> <<>>, state |-> state]
    ELSE LET rest == Draws(RngStep(state), n - 1) IN
         [values |-> <<RngSample(state)>> \o rest.values, state |-> rest.state]

basic_class_weights == <<8, 12, 6, 15, 10, 7, 9, 5, 4>>
enhanced_class_weights == <<8, 12, 6, 15, 10, 7, 9, 5, 4, 6, 8, 9, 11, 7, 5>>

SeqMax(row) == CHOOSE m \in {row[i] : i \in DOMAIN row} : \A i \in DOMAIN row : row[i] <= m
\* logits * class_weights, then softmax: exp(logits - max) / sum.  The
\* probabilities of a row are determined by, and determine, logits - max,
\* which stands for them here.
Softmax(values, weights) ==
    LET logits == [i \in DOMAIN weights |-> values[i] * weights[i]] IN
    [i \in DOMAIN weights |-> logits[i] - SeqMax(logits)]

\* np.random.randn(batch_size, num_classes) row by row, weighted and
\* normalised: [rows, state]
RECURSIVE Probabilities(_, _, _)
Probabilities(state, batch_size, weights) ==
    IF batch_size = 0 THEN [rows |-> <<>>, state |-> state]
    ELSE LET row == Draws(state, Len(weights))
             rest == Probabilities(row.state, batch_size - 1, weights)
         IN [rows |-> <<Softmax(row.values, weights)>> \o rest.rows, state |-> rest.state]

\* Faulty variant: the generator is seeded from the input before the draws
MockPanDermModel_predict_Seeded(state, input) ==
    LET p == Probabilities(IF input.image = "a" THEN 1 ELSE 2, input.batch_size,
                           basic_class_weights)
    IN [output |-> [linear_48 |-> p.rows], state |-> p.state]

\* MockPanDermModel.predict(inputs): only inputs['input'].shape[0] is read
MockPanDermModel_predict(state, input) ==
    LET p == Probabilities(state, input.batch_size, basic_class_weights)
    IN [output |-> [linear_48 |-> p.rows], state |-> p.state]

\* EnhancedPanDermModel.predict(inputs): the class probabilities, then
\* np.random.uniform for confidence and for risk_score, one number a row
EnhancedPanDermModel_predict(state, input) ==
    LET p == Probabilities(state, input.batch_size, enhanced_class_weights)
        confidence == Draws(p.state, input.batch_size)
        risk_score == Draws(confidence.state, input.batch_size)
    IN [output |-> [classification |-> p.rows, confidence |-> confidence.values,
                    risk_score |-> risk_score.values],
        state |-> risk_score.state]

PredictInputs == {[image |-> i, batch_size |-> b] : i \in {"a", "b"}, b \in 1..MaxBatch}

\* A Python process that built the models and calls predict: loc.state is the
\* generator's state, loc.calls what was predicted so far, in all runs.
InitPredict ==
    /\ script = "predict"
    /\ pc = "predict"
    /\ loc \in {[state |-> r, run |-> 1, calls |-> <<>>] : r \in 0..(RngStates - 1)}
    /\ fs = FileSystemOf({}) /\ fs0 = fs
    /\ importable = AllModules
    /\ ret = "unset" /\ stack = <<>> /\ runs = 0
    /\ exitCode = [script |-> "none", code |-> 0]
    /\ ready = <<>> /\ log = <<>>

Predicted(model, input, result) ==
    /\ script = "predict" /\ Len(loc.calls) < MaxPredictions
    /\ loc' = [loc EXCEPT
                 !.state = result.state,
                 !.calls = Append(@, [model |-> model, input |-> input, run |-> loc.run,
                                       before |-> loc.state, output |-> result.output])]
    /\ UNCHANGED <<fs, fs0, importable, script, pc, ret, stack, runs, exitCode, ready, log>>

PredictBasic ==
    \E input \in PredictInputs :
        Predicted("basic", input, MockPanDermModel_predict(loc.state, input))
PredictEnhanced ==
    \E input \in PredictInputs :
        Predicted("enhanced", input, EnhancedPanDermModel_predict(loc.state, input))

\* The process ends and a new one starts, with a generator state of its own.
PredictRestart ==
    /\ script = "predict" /\ loc.run = 1 /\ loc.calls # <<>>
    /\ \E r \in 0..(RngStates - 1) : loc' = [loc EXCEPT !.state = r, !.run = 2]
    /\ UNCHANGED <<fs, fs0, importable, script, pc, ret, stack, runs, exitCode, ready, log>>

NextPredict == PredictBasic \/ PredictEnhanced \/ PredictRestart

SpecPredict == InitPredict /\ [][NextPredict]_vars

\* ------------------------------------------------- the loop of the tests
\* test_local_inference.py main over test functions that may do anything a
\* call can do: return a true value, return a false one, or raise.
InitTestMain ==
    /\ script = "test"
    /\ pc = "test_loop"
    /\ loc = InitLoc("test")
    /\ fs = FileSystemOf({}) /\ fs0 = fs
    /\ importable = AllModules
    /\ ret = "unset" /\ stack = <<>> /\ runs = 1
    /\ exitCode = [script |-> "none", code |-> 0]
    /\ ready = <<>> /\ log = <<>>

TestAny == \E outcome \in TestOutcomes : RunTest(NextTest, outcome)

NextTestMain == TestAny \/ TestSummary \/ ProcessExit

SpecTestMain == InitTestMain /\ [][NextTestMain]_vars

\* ------------------------------------------- the summary of the validation
\* main's summary as a function of the five results: every count the four
\* file checks can return, and for the code quality every (passed, total)
\* up to its four indicators; total = 0 is what the summary's guard is for.
SummaryInputs ==
    {<<<<a, Len(swift_files)>>, <<b, Len(core_ml_model_files)>>, <<c, Len(directories)>>,
       <<d, Len(docs)>>, <<q[1], q[2]>>>> :
        a \in 0..Len(swift_files), b \in 0..Len(core_ml_model_files),
        c \in 0..Len(directories), d \in 0..Len(docs),
        q \in {<<x, y>> \in (0..(1 + Len(QualityFiles))) \X (0..(1 + Len(QualityFiles))) :
                 x <= y}}

InitSummary ==
    /\ script = "validate"
    /\ pc = "validate_summary"
    /\ loc \in {[results |-> r] : r \in SummaryInputs}
    /\ fs = FileSystemOf({}) /\ fs0 = fs
    /\ importable = AllModules
    /\ ret = "unset" /\ stack = <<>> /\ runs = 1
    /\ exitCode = [script |-> "none", code |-> 0]
    /\ ready = <<>> /\ log = <<>>

NextSummary == ValidateSummary \/ ProcessExit

SpecSummary == InitSummary /\ [][NextSummary]_vars

\* ================================================================= claims
Ended(s) == script = "none" /\ exitCode.script = s
Before(i, j) == i \in DOMAIN log /\ j \in DOMAIN log /\ i < j
Printed(text) == \E i \in DOMAIN log : log[i].op = "print" /\ log[i].arg = <<text>>

\* ---- C1
\* A step reported failure: an external call or a guard of main failed.  The
\* result of validate_model and of a single file-presence check are reports
\* main goes on from, and a failed import counts when it ends the script
\* (main then never finishes: ret = "raised").
ReportOps == {"import", "validate_model", "check"}
StepFailed == \E i \in DOMAIN log : ~log[i].ok /\ log[i].op \notin ReportOps
MainFinishedClean == ret # "raised" /\ ~StepFailed

\* C1: for every script, the process exits with code 0 if and only if main
\* finished without any step reporting failure (as the claim states it; the
\* code of convert_panderm_to_coreml.py does not do this).
C1_ExitCodeIffNoFailure ==
    (script = "none" /\ exitCode.script \in Scripts)
        => (exitCode.code = 0 <=> MainFinishedClean)

\* The same statement for the five scripts other than
\* convert_panderm_to_coreml.py, which do turn main's result into the exit code.
C1_HoldsOutsideConvert ==
    (script = "none" /\ exitCode.script \in Scripts \ {"convert"})
        => (exitCode.code = 0 <=> MainFinishedClean)

\* ---- C2
FailOps == {"install", "validate_model", "test", "print", "build", "save", "rmtree",
            "load", "ct.convert"}
LaterOps == {"install", "build", "save", "test", "subprocess", "load", "ct.convert"}

\* C2 as stated: in every script, once a step has failed, no later install,
\* model build, test or conversion step runs.
C2_FailureAbortsEveryScript ==
    \A i, j \in DOMAIN log :
        (i < j /\ ~log[i].ok /\ log[i].op \in FailOps) => log[j].op \notin LaterOps

\* C2 amended: only convert_panderm_to_coreml.py main stops at the first
\* failed step (after it, nothing but messages); create_test_model.py main
\* stops when a build, removal, save or mkdir raises and not when
\* validate_model fails; setup_environment.py main attempts all 13 installs
\* whatever failed before and skips only the import verification;
\* test_local_inference.py main runs all five tests whatever failed before.
C2_OnlyExceptionsAbort ==
    /\ \A i, j \in DOMAIN log :
          (i < j /\ log[i].by = "convert" /\ ~log[i].ok) => log[j].op = "print"
    /\ \A i, j \in DOMAIN log :
          (i < j /\ log[i].by = "create" /\ ~log[i].ok
                 /\ log[i].op \in {"build", "rmtree", "save", "mkdir", "write"})
             => log[j].by # "create"
    /\ \A i, j \in DOMAIN log :
          (i < j /\ log[i].by = "setup" /\ log[i].op = "install" /\ ~log[i].ok)
             => (log[j].op = "install" \/ (log[j].op = "print" /\ ~log[j].ok))
    /\ (script = "setup" /\ pc = "setup_check")
          => /\ Len(log) = 13
             /\ \A k \in 1..13 : log[k].op = "install" /\ log[k].arg = <<packages[k]>>
    /\ (script = "test" /\ pc = "test_summary")
          => /\ Len(loc.results) = 5
             /\ \A k \in 1..5 :
                   \E i \in DOMAIN log : /\ log[i].by = "test" /\ log[i].op = "test"
                                         /\ log[i].arg = <<tests[k]>>

\* C2 witness: setup_environment.py went through the whole list although its
\* first install failed, and another one after it.
C2_Witness ==
    /\ script = "setup" /\ pc = "setup_check"
    /\ Len(loc.failed_packages) = 2
    /\ loc.failed_packages[1] = packages[1]

\* ---- C3
SavesOn(by, p) == {j \in DOMAIN log : log[j].by = by /\ log[j].op = "save" /\ log[j].arg = p}
RemovedBefore(by, p, j) ==
    \E i \in DOMAIN log :
        i < j /\ log[i].by = by /\ log[i].op = "rmtree" /\ log[i].arg = p /\ log[i].ok

\* C3 as stated: whenever create_model_package or convert_to_coreml saves to
\* a path that exists already, the directory is removed first and the save
\* happens exactly once afterwards.
C3_RemovedBeforeEverySave ==
    \A j \in DOMAIN log :
        (log[j].op = "save" /\ Exists(fs0, log[j].arg))
            => /\ RemovedBefore(log[j].by, log[j].arg, j)
               /\ Cardinality(SavesOn(log[j].by, log[j].arg)) = 1

\* C3 amended: create_model_package removes an existing package before it
\* saves, and after a removal that succeeded the save follows at once and is
\* the only one to that path; convert_to_coreml removes nothing: it saves
\* over whatever is at the output path.
C3_CreateRemovesConvertDoesNot ==
    /\ \A j \in DOMAIN log :
          (log[j].by = "create" /\ log[j].op = "save" /\ Exists(fs0, log[j].arg))
             => /\ RemovedBefore("create", log[j].arg, j)
                /\ Cardinality(SavesOn("create", log[j].arg)) = 1
    /\ \A i \in DOMAIN log :
          (log[i].op = "rmtree" /\ log[i].ok)
             => /\ log[i].by = "create"
                /\ i + 1 \in DOMAIN log
                /\ log[i + 1].op = "save" /\ log[i + 1].arg = log[i].arg
    /\ \A i \in DOMAIN log : log[i].by = "convert" => log[i].op # "rmtree"

\* C3 witness: create_model_package replaced a package that was there before.
C3_Witness ==
    \E j \in DOMAIN log :
        /\ log[j].by = "create" /\ log[j].op = "save" /\ log[j].ok
        /\ Exists(fs0, log[j].arg)
        /\ fs[log[j].arg] # fs0[log[j].arg]

\* ---- C4
GetEvents == {i \in DOMAIN log : log[i].by = "download" /\ log[i].op = "GET"}
\* the positions of the cookies whose name starts with download_warning
WarningCookies(cookies) ==
    {k \in DOMAIN cookies : StartsWith(cookies[k].key, WarningPrefix)}
FirstWarningValue(cookies) ==
    cookies[CHOOSE k \in WarningCookies(cookies) :
                \A m \in WarningCookies(cookies) : k <= m].value
\* the first response is in and the decision on a second request is taken
HandshakeDone ==
    /\ script = "download" /\ loc.first # NoResponse
    /\ pc \in {"download_save", "exit"}
DownloadDestination == Resolve(ConversionDir, loc.destination)
\* what holds of the requests and the written bytes in either version
HandshakeShape ==
    /\ script = "download" =>
          /\ Cardinality(GetEvents) <= 2
          /\ \A i \in GetEvents :
                (\A j \in GetEvents : i <= j) => log[i].arg = <<"id", loc.file_id>>
    /\ HandshakeDone =>
          /\ Cardinality(GetEvents) = 2 =>
                \E i \in GetEvents :
                    log[i].arg = <<"id", loc.file_id, "confirm",
                                   FirstWarningValue(loc.first.cookies)>>
          /\ \A w \in DOMAIN log :
                (log[w].op = "write" /\ log[w].ok) =>
                    fs[DownloadDestination] =
                        IF Cardinality(GetEvents) = 2 THEN "body2" ELSE "body1"

\* C4 as stated: one GET with the file id; a second GET with id and
\* confirm=<value of the first download_warning cookie> exactly when the first
\* response carries such a cookie; never more than two GETs; the bytes
\* written are those of the last response received.
C4_SecondGetIffWarningCookie ==
    /\ HandshakeShape
    /\ HandshakeDone =>
          (Cardinality(GetEvents) = 2 <=> WarningCookies(loc.first.cookies) # {})

\* C4 amended: the second GET is issued exactly when the first
\* download_warning cookie of the first response has a non-empty value (an
\* empty value is falsy: the first response is then saved as it is).
C4_SecondGetIffNonEmptyToken ==
    /\ HandshakeShape
    /\ HandshakeDone =>
          (Cardinality(GetEvents) = 2 <=>
              /\ WarningCookies(loc.first.cookies) # {}
              /\ FirstWarningValue(loc.first.cookies) # "")

\* C4 witness: two warning cookies with different values came, the first
\* one's value was sent back, and the second response was saved.
C4_Witness ==
    /\ HandshakeDone /\ ret = "True"
    /\ Cardinality(WarningCookies(loc.first.cookies)) = 2
    /\ loc.first.cookies[1].value = "t2" /\ loc.first.cookies[2].value = "t1"
    /\ \E i \in GetEvents : log[i].arg = <<"id", loc.file_id, "confirm", "t2">>
    /\ fs[DownloadDestination] = "body2"

\* ---- C5
AttemptOps == {"install", "GET", "import", "build", "rmtree", "save", "write", "mkdir",
               "load", "ct.convert", "subprocess", "validate_model"}
SameCall(i, j) ==
    /\ log[i].by = log[j].by /\ log[i].op = log[j].op /\ log[i].arg = log[j].arg
    /\ log[i].op \in AttemptOps
InstallsOf(package) ==
    {i \in DOMAIN log : log[i].by = "setup" /\ log[i].op = "install"
                        /\ log[i].arg = <<package>>}
EachInstalledOnce ==
    (script = "setup" /\ pc = "setup_check")
        => \A k \in DOMAIN packages : Cardinality(InstallsOf(packages[k])) = 1

\* C5 as stated: within one run no install, request, conversion, save,
\* import or other external call is made twice, and in a run of
\* setup_environment.py that gets through the list each package is installed
\* exactly once.
C5_NothingAttemptedTwice ==
    /\ \A i, j \in DOMAIN log : i < j => ~SameCall(i, j)
    /\ EachInstalledOnce

\* C5 amended: the one call made twice is `import coremltools` at the top
\* of create_test_model.py: after it failed, pip install coremltools runs and
\* the import is attempted a second and last time.
C5_OnlyTheImportIsRetried ==
    /\ \A i, j \in DOMAIN log :
          (i < j /\ SameCall(i, j))
             => /\ log[i].by = "create" /\ log[i].op = "import"
                /\ log[i].arg = <<"coremltools">>
                /\ ~log[i].ok
                /\ \E m \in DOMAIN log :
                      i < m /\ m < j /\ log[m].by = "create" /\ log[m].op = "install"
                /\ \A k \in DOMAIN log : (k # i /\ k # j) => ~SameCall(i, k)
    /\ \A k \in DOMAIN packages : Cardinality(InstallsOf(packages[k])) <= 1
    /\ EachInstalledOnce

\* C5 witness: create_test_model.py imported coremltools at the second attempt.
C5_Witness ==
    \E i, j \in DOMAIN log :
        /\ i < j /\ SameCall(i, j) /\ log[i].op = "import"
        /\ ~log[i].ok /\ log[j].ok
        /\ script = "create" /\ pc = "create_mkdir"

\* ---- C6
\* typed is c with nothing but whitespace around it
IsChoice(typed, c) ==
    \E i \in DOMAIN typed :
        typed[i] = c /\ \A j \in DOMAIN typed \ {i} : typed[j] \in Whitespace
AfterInput ==
    /\ script = "download"
    /\ pc \in {"download_get1", "download_get2", "download_save"}
          \/ (pc = "exit" /\ ret # "raised")
NoRequest == GetEvents = {}
CheckpointsUntouched ==
    \A p \in CheckpointFiles :
        /\ Exists(fs, p) <=> Exists(fs0, p)
        /\ Exists(fs, p) => fs[p] = fs0[p]

\* C6: download_weights.py main accepts exactly '1' and '2' (whitespace
\* around them stripped): '1' gives the Base file id and the destination
\* model/pretrain_weight/panderm_bb_data6_checkpoint-499.pth, '2' the Large
\* file id and panderm_ll_data6_checkpoint-499.pth; any other input makes main
\* return False (exit code 1) with no HTTP request and no checkpoint file
\* created or modified.
C6_ChoiceOneOrTwo ==
    /\ AfterInput =>
          /\ IsChoice(loc.typed, "1") =>
                /\ loc.file_id = "17J4MjsZu3gdBP6xAQi_NMDVvH65a00HB"
                /\ DownloadDestination =
                      <<"model", "pretrain_weight", "panderm_bb_data6_checkpoint-499.pth">>
                /\ ~Printed("Invalid choice")
          /\ IsChoice(loc.typed, "2") =>
                /\ loc.file_id = "1SwEzaOlFV_gBKf2UzeowMC8z9UH7AQbE"
                /\ DownloadDestination =
                      <<"model", "pretrain_weight", "panderm_ll_data6_checkpoint-499.pth">>
                /\ ~Printed("Invalid choice")
          /\ (~IsChoice(loc.typed, "1") /\ ~IsChoice(loc.typed, "2")) =>
                /\ pc = "exit" /\ ret = "False"
                /\ Printed("Invalid choice")
                /\ NoRequest /\ CheckpointsUntouched
    /\ (Ended("download") /\ Printed("Invalid choice")) =>
          exitCode.code = 1 /\ NoRequest /\ CheckpointsUntouched

\* C6 witness: "12" was typed and refused, with the Base checkpoint of an
\* earlier download still in place.
C6_Witness ==
    /\ script = "download" /\ pc = "exit"
    /\ loc.typed = <<"1", "2">>
    /\ Exists(fs, BaseCheckpoint)

\* ---- C8
\* how many paths of the list exist
ExistingOf(list) == Cardinality({i \in DOMAIN list : Exists(fs, list[i])})
CheckResult(k, list, total) ==
    k \in DOMAIN loc.results =>
        /\ loc.results[k] = <<ExistingOf(list), total>>
        /\ Len(list) = total
        /\ 0 <= loc.results[k][1] /\ loc.results[k][1] <= total
        /\ loc.results[k][1] = total <=> \A i \in DOMAIN list : Exists(fs, list[i])

\* C8: check_swift_files, check_core_ml_models, check_project_structure and
\* check_documentation return (passed, total) with total = 13, 2, 6 and 5 and
\* passed the number of listed paths that exist, so 0 <= passed <= total and
\* passed = total iff every listed path exists; the checks leave the file
\* system as it is.
C8_ChecksCountExistingPaths ==
    script = "validate" =>
        /\ CheckResult(1, swift_files, 13)
        /\ CheckResult(2, core_ml_model_files, 2)
        /\ CheckResult(3, directories, 6)
        /\ CheckResult(4, docs, 5)
        /\ fs = fs0

\* C8 witness: all four checks ran on a repository with two Swift files, one
\* document and one model package missing.
C8_Witness ==
    /\ script = "validate" /\ pc = "validate_quality"
    /\ loc.results = <<<<11, 13>>, <<1, 2>>, <<6, 6>>, <<4, 5>>>>

\* ---- C9
\* C9: after download_weights.py announced "Ready for conversion" for choice
\* '1' or '2', a following run of convert_panderm_to_coreml.py does not stop
\* with "Checkpoint not found" (as the claim states it; for '2' the code does).
C9_ReadyMeansCheckpointFound ==
    (script = "convert" /\ ready \in {<<"1">>, <<"2">>})
        => ~Printed("Checkpoint not found")

\* The hand-over works for choice '1', whose file is the one convert looks for.
C9_HoldsForBase ==
    (script = "convert" /\ ready = <<"1">>) => ~Printed("Checkpoint not found")

\* ---- C10
CreateExitedZero ==
    \/ Ended("create") /\ exitCode.code = 0
    \/ script = "test" /\ pc = "test_child" /\ loc.returncode = 0

\* C10: after create_test_model.py exits with code 0, PanDerm/PanDerm.mlpackage
\* and PanDerm/PanDerm 2.mlpackage exist, which are the paths
\* test_model_files_exist and check_core_ml_models look for; so in
\* test_local_inference.py, whenever test_coreml_model_creation passed,
\* test_model_files_exist passes too.
C10_PackagesExistAfterCreate ==
    /\ CreateExitedZero =>
          /\ Exists(fs, <<"PanDerm", "PanDerm.mlpackage">>)
          /\ Exists(fs, <<"PanDerm", "PanDerm 2.mlpackage">>)
          /\ AllExist(fs, model_files)
          /\ CountPassed(fs, core_ml_model_files) = 2
    /\ (script = "test" /\ Len(loc.results) >= 2 /\ loc.results[1]) => loc.results[2]

\* C10 witness: the first two tests passed on a package the child process
\* created.
C10_Witness ==
    /\ script = "test" /\ Len(loc.results) = 2
    /\ loc.results[1] /\ loc.results[2]
    /\ ~Exists(fs0, <<"PanDerm", "PanDerm.mlpackage">>)

\* ---- C7
SameQuestion(c, d) == c.model = d.model /\ c.input = d.input

\* C7 as stated: two predictions of the same model on the same input, in
\* one run or in two, return the same outputs.
C7_PredictIsDeterministic ==
    script = "predict" =>
        \A i, j \in DOMAIN loc.calls :
            SameQuestion(loc.calls[i], loc.calls[j])
                => loc.calls[i].output = loc.calls[j].output

\* C7 amended: the outputs are drawn from NumPy's global generator, which
\* nothing seeds: a prediction is a function of the generator's state and of
\* the input's batch size alone (the image is not read), and every row of
\* probabilities has one entry per class with the largest at the softmax's
\* maximum.
C7_PredictDependsOnGeneratorOnly ==
    script = "predict" =>
        /\ \A i, j \in DOMAIN loc.calls :
              LET c == loc.calls[i]
                  d == loc.calls[j]
              IN (c.model = d.model /\ c.before = d.before
                    /\ c.input.batch_size = d.input.batch_size)
                     => c.output = d.output
        /\ \A i \in DOMAIN loc.calls :
              LET c == loc.calls[i]
                  rows == IF c.model = "basic" THEN c.output.linear_48
                          ELSE c.output.classification
              IN /\ Len(rows) = c.input.batch_size
                 /\ \A b \in DOMAIN rows :
                       /\ Len(rows[b]) = IF c.model = "basic" THEN 9 ELSE 15
                       /\ \E k \in DOMAIN rows[b] : rows[b][k] = 0
                       /\ \A k \in DOMAIN rows[b] : rows[b][k] <= 0

\* C7 witness: the basic model answered the same input twice in one run,
\* with different outputs.
C7_Witness ==
    /\ script = "predict" /\ Len(loc.calls) = 2
    /\ loc.calls[1].model = "basic"
    /\ SameQuestion(loc.calls[1], loc.calls[2])
    /\ loc.calls[1].run = loc.calls[2].run
    /\ loc.calls[1].output # loc.calls[2].output

\* ---- C11
ConvertRun == script = "convert" \/ Ended("convert")
ConvertEvents(op) == {i \in DOMAIN log : log[i].by = "convert" /\ log[i].op = op}

\* C11: convert_panderm_to_coreml.py main runs environment check, checkpoint
\* check, load, conversion in that order and each only after the earlier ones
\* succeeded: the conversion and the save happen at most once, only with all
\* five packages importable, the checkpoint present and a model loaded just
\* before; "Conversion completed successfully" is printed only after a save
\* that succeeded; without a conversion the file system is as it was.
C11_ConvertStepsInOrder ==
    ConvertRun =>
        /\ Cardinality(ConvertEvents("ct.convert")) <= 1
        /\ Cardinality(ConvertEvents("save")) <= 1
        /\ Cardinality(ConvertEvents("load")) <= 1
        /\ \A j \in ConvertEvents("ct.convert") :
              /\ setup_environment(importable)
              /\ Exists(fs0, Resolve(ConversionDir, checkpoint_path))
              /\ j = 3
              /\ log[1] = Event("convert", "print", <<"Found checkpoint">>, TRUE)
              /\ log[2] = Event("convert", "load",
                                Resolve(ConversionDir, checkpoint_path), TRUE)
        /\ \A j \in ConvertEvents("load") :
              /\ j = 2
              /\ log[1] = Event("convert", "print", <<"Found checkpoint">>, TRUE)
              /\ setup_environment(importable)
        /\ \A j \in ConvertEvents("save") :
              j > 1 /\ log[j - 1] = Event("convert", "ct.convert", <<>>, TRUE)
        /\ Printed("Conversion completed successfully")
              => \E j \in ConvertEvents("save") : log[j].ok /\ log[j].arg = ConvertOutput
        /\ ConvertEvents("ct.convert") = {} => fs = fs0

\* C11 witness: a run of the script that went through all four steps and
\* saved the package.
C11_Witness ==
    /\ Ended("convert")
    /\ Printed("Conversion completed successfully")
    /\ Exists(fs, ConvertOutput)
    /\ ~Exists(fs0, ConvertOutput)

\* ---- C12
MissingReported ==
    /\ Printed("Environment setup failed")
    /\ \E i \in DOMAIN log :
          log[i] = Event("convert", "print",
                         FirstMissing(RequiredModules, importable) \o <<"not found">>, FALSE)
    /\ ret # "raised"
    /\ ConvertEvents("load") = {} /\ ConvertEvents("ct.convert") = {}

\* C12 as stated: whenever one of timm, torch, torchvision, coremltools,
\* numpy is not importable, a run of convert_panderm_to_coreml.py prints the
\* "not found" line of the first missing one and "Environment setup failed",
\* and ends without an uncaught exception and without loading or converting.
C12_MissingPackageReported ==
    (Ended("convert") /\ ~setup_environment(importable)) => MissingReported

\* The same statement when the modules imported at the top of the script
\* (torch, coremltools, numpy) are importable, i.e. for timm and torchvision.
C12_HoldsWhenTopImportsSucceed ==
    (Ended("convert") /\ ~setup_environment(importable)
       /\ FirstMissing(ConvertTopImports, importable) = <<>>) => MissingReported

\* ---- C13
StatusOf(passed, total) ==
    IF total = 0 THEN "FAIL"
    ELSE IF 100 * passed >= 80 * total THEN "PASS"
    ELSE IF 100 * passed >= 50 * total THEN "PARTIAL" ELSE "FAIL"
StatusLine(i) ==
    CHOOSE e \in {log[j] : j \in DOMAIN log} : e.op = "status" /\ e.arg[1] = categories[i]

\* C13: validate_implementation.py main reports a category PASS iff
\* 100*passed >= 80*total, PARTIAL iff 50*total <= 100*passed < 80*total and
\* FAIL otherwise (also when total = 0); it returns True, and the process
\* exits 0, iff 100*total_passed >= 80*total_checks over the pooled sums,
\* whatever the status of a single category.
C13_IntegerThresholds ==
    /\ (script = "validate" /\ pc = "exit") =>
          /\ \A i \in 1..5 :
                StatusLine(i).arg[2] = StatusOf(loc.results[i][1], loc.results[i][2])
          /\ Cardinality({j \in DOMAIN log : log[j].op = "status"}) = 5
          /\ ret \in {"True", "False"}
          /\ ret = "True" <=>
                100 * SumField(loc.results, 1) >= 80 * SumField(loc.results, 2)
    /\ Ended("validate") => (exitCode.code = 0 <=> ret = "True")

\* C13 witness: the verdict is True although a category is reported FAIL,
\* one is exactly at 80% and one has total = 0.
C13_Witness ==
    /\ script = "validate" /\ pc = "exit" /\ ret = "True"
    /\ StatusLine(2).arg[2] = "FAIL"
    /\ loc.results[4] = <<4, 5>> /\ StatusLine(4).arg[2] = "PASS"
    /\ loc.results[5] = <<0, 0>> /\ StatusLine(5).arg[2] = "FAIL"

\* ---- C14
TestEvents == SelectSeq(log, LAMBDA e : e.by = "test" /\ e.op = "test")
RaisedAt(j) ==
    /\ j \in DOMAIN log /\ j > 1
    /\ log[j] = Event("test", "print", <<"Test failed with exception">>, FALSE)

\* C14: test_local_inference.py main runs the five tests in the order model
\* creation, model files, key files, Swift compilation, implementation
\* structure whatever the earlier outcomes; a test that raises is recorded
\* as failed and the loop goes on; the summary is reached with five results
\* and main returns True, and the process exits 0, iff all five returned a
\* true value.
C14_AllFiveTestsRun ==
    /\ script = "test" =>
          /\ Len(TestEvents) = Len(loc.results)
          /\ \A k \in 1..Len(TestEvents) :
                TestEvents[k].arg = <<tests[k]>> /\ TestEvents[k].ok = loc.results[k]
          /\ \A j \in DOMAIN log :
                RaisedAt(j) => log[j - 1].op = "test" /\ ~log[j - 1].ok
          /\ pc \in {"test_loop", "test_child"} <=> Len(loc.results) < 5
          /\ pc \in {"test_summary", "exit"} =>
                Len(loc.results) = 5 /\ Passed(loc.results) \in 0..5
          /\ pc = "exit" =>
                /\ ret \in {"True", "False"}
                /\ ret = "True" <=> \A k \in 1..5 : loc.results[k]
    /\ Ended("test") =>
          /\ Len(TestEvents) = 5
          /\ exitCode.code = 0 <=> \A k \in 1..5 : TestEvents[k].ok

\* C14 witness: the second test raised, the three after it ran, and the
\* process ended with exit code 1.
C14_Witness ==
    /\ Ended("test") /\ exitCode.code = 1
    /\ Len(TestEvents) = 5
    /\ \E j \in DOMAIN log :
          RaisedAt(j) /\ log[j - 1].arg = <<tests[2]>> /\ log[j + 1].arg = <<tests[3]>>
    /\ TestEvents[1].ok /\ TestEvents[3].ok /\ TestEvents[4].ok /\ TestEvents[5].ok

\* ---- C15
Installs == SelectSeq(log, LAMBDA e : e.by = "setup" /\ e.op = "install")
FailedInstalls == SelectSeq(Installs, LAMBDA e : ~e.ok)
PackagesOf(events) == [k \in 1..Len(events) |-> events[k].arg[1]]

\* C15: setup_environment.py main attempts the 13 packages once each in list
\* order; after the loop failed_packages is the sub-list, in order, of the
\* packages whose pip call exited non-zero; if it is not empty main returns
\* False and verifies no import; the process exits 0 iff all 13 installs
\* succeeded and torch, torchvision, timm and coremltools could then be
\* imported; an exception of the pip call other than its non-zero exit is not
\* turned into a failed package: it ends the run where it happened.
C15_InstallsAllThirteen ==
    /\ script = "setup" =>
          /\ \A k \in 1..Len(Installs) : Installs[k].arg = <<packages[k]>>
          /\ pc = "setup_install" =>
                Len(Installs) = loc.idx - 1 /\ Len(Installs) < 13
          /\ pc \in {"setup_check", "setup_verify"} =>
                /\ Len(Installs) = 13
                /\ loc.failed_packages = PackagesOf(FailedInstalls)
          /\ pc = "setup_verify" => loc.failed_packages = <<>>
          /\ (pc = "exit" /\ ret = "raised") =>
                /\ Len(Installs) = Len(log) /\ ~log[Len(log)].ok
                /\ Len(FailedInstalls) = Len(loc.failed_packages) + 1
                /\ loc.failed_packages
                      = PackagesOf(SubSeq(FailedInstalls, 1, Len(FailedInstalls) - 1))
          /\ (pc = "exit" /\ ret # "raised" /\ FailedInstalls # <<>>) =>
                /\ ret = "False"
                /\ log[Len(log)] = Event("setup", "print",
                                         <<"Failed to install packages">>, FALSE)
                /\ \A j \in DOMAIN log : log[j].op # "import"
    /\ Ended("setup") =>
          (exitCode.code = 0 <=>
              /\ Len(Installs) = 13
              /\ FailedInstalls = <<>>
              /\ {VerifiedModules[k] : k \in 1..Len(VerifiedModules)} \subseteq importable)

\* C15 witness: the loop is over, the third and the last pip call failed and
\* no other did.
C15_Witness ==
    /\ script = "setup" /\ pc = "setup_check"
    /\ loc.failed_packages = <<packages[3], packages[13]>>
    /\ PackagesOf(FailedInstalls) = <<packages[3], packages[13]>>

\* ---- C16
CreateEvents(op) == {i \in DOMAIN log : log[i].by = "create" /\ log[i].op = op}
PackageOf(k) == Resolve(RootDir, PackagePath(output_dir, ModelNames[k]))
Built(k) == \E i \in CreateEvents("build") : log[i].arg = <<ModelNames[k]>> /\ log[i].ok
Saved(k) == \E i \in CreateEvents("save") : log[i].arg = PackageOf(k) /\ log[i].ok
InfoWritten == \E i \in CreateEvents("write") : log[i].ok
RaisedInTry ==
    \E i \in DOMAIN log :
        /\ log[i].by = "create" /\ ~log[i].ok
        /\ log[i].op \in {"build", "rmtree", "save", "write"}

\* C16: create_test_model.py main returns True, and the process exits 0,
\* exactly when both models were built, both packages saved and
\* models_info.txt written; it returns False exactly when one of these
\* raised; what validate_model returned for either package changes nothing;
\* models_info.txt is written only after both saves, and the basic package
\* is saved before the enhanced model is built.
C16_CreateReturnValue ==
    /\ (script = "create" /\ pc = "exit") =>
          /\ ret = "True" <=> (Built(1) /\ Built(2) /\ Saved(1) /\ Saved(2) /\ InfoWritten)
          /\ ret = "False" <=> RaisedInTry
          /\ ret \in {"True", "False", "raised"}
    /\ Ended("create") => (exitCode.code = 0 <=> ret = "True")
    /\ \A i \in CreateEvents("write") :
          \A k \in 1..2 :
             \E j \in CreateEvents("save") : j < i /\ log[j].arg = PackageOf(k) /\ log[j].ok
    /\ \A i \in CreateEvents("build") :
          log[i].arg = <<ModelNames[2]>> =>
             \E j \in CreateEvents("save") : j < i /\ log[j].arg = PackageOf(1) /\ log[j].ok
    /\ \A i \in CreateEvents("validate_model") :
          \E j \in CreateEvents("save") : j < i /\ log[j].arg = log[i].arg /\ log[j].ok

\* C16 witness: main returned True although validate_model failed for both
\* packages.
C16_Witness ==
    /\ script = "create" /\ pc = "exit" /\ ret = "True"
    /\ Cardinality(CreateEvents("validate_model")) = 2
    /\ \A i \in CreateEvents("validate_model") : ~log[i].ok

====
